---- MODULE Spec2Model ----
(***************************************************************************)
(* Model of src/src/App.js: the VolunteerRecordApp React component, its    *)
(* SupabaseClient gateway and the records/comments tables it talks to.     *)
(*                                                                         *)
(* React state is one variable per useState hook.  An async handler that   *)
(* is suspended at an await is a task: its position (pc) and the values    *)
(* its closure captured when it was invoked.  A gateway request settles    *)
(* in one step: the store applies it and the awaiting handler resumes and  *)
(* runs to its next await (or to its end).                                 *)
(***************************************************************************)
EXTENDS Integers, Sequences, FiniteSets, Bags, TLC

VARIABLES
    \* ---- backing store (tables created by the SQL of App.js:407-431)
    dbRecords,              \* rows of table records, in insertion order
    dbComments,             \* rows of table comments, in insertion order
    recSerial,              \* last value of records.id BIGSERIAL
    comSerial,              \* last value of comments.id BIGSERIAL
    \* ---- process-wide configuration (App.js:5-7)
    env,
    \* ---- React state (App.js:75-102)
    records, loading, currentView, selectedRecord,
    showModal, showEditModal, showDeleteModal, showCommentDeleteModal,
    deleteTarget, editTarget, selectedPhotos, adminPassword,
    commentToDelete, commentPassword, editPassword, newComment,
    sortOrder, formData,
    \* ---- asynchrony
    tasks,                  \* bag of handlers suspended at an await
    readers,                \* bag of FileReader conversions not yet loaded
    stamps,                 \* per Date.now() reading taken, the comment row it was taken for
    \* ---- observation
    submitted,              \* number of gateway-calling handlers started
    last                    \* the handler step just taken and its alerts

dbVars   == <<dbRecords, dbComments, recSerial, comSerial>>
formVars == <<formData, selectedPhotos>>
viewVars == <<currentView, selectedRecord, sortOrder>>
modalVars == <<showModal, showEditModal, showDeleteModal, showCommentDeleteModal,
               deleteTarget, editTarget, commentToDelete>>
credVars == <<adminPassword, commentPassword, editPassword>>
uiVars   == <<records, loading, viewVars, modalVars, credVars, newComment, formVars>>
vars     == <<dbVars, env, uiVars, tasks, readers, stamps, submitted, last>>

-----------------------------------------------------------------------------
(* Bounds of the model.                                                    *)

\* an upload batch is chosen only while at most this many photos are staged
\* or being converted
MaxBacklog == 10

\* gateway-calling handler invocations explored in one behaviour
MaxActions == 2

-----------------------------------------------------------------------------
(* Values.                                                                 *)

\* JavaScript null, for state that otherwise holds an object
NULL == [null |-> TRUE]
\* JavaScript null / undefined, for values that otherwise hold a string
NullStr == "<null>"
UndefinedStr == "<undefined>"
\* JavaScript null, for state that otherwise holds a row identifier
NullId == 0

\* new Date().toISOString().split('T')[0]
Today == "2024-03-01"

\* new Date().toLocaleString('ko-KR')
LocaleNow == "2024. 3. 1. 10:00:00"

\* Date.now(): milliseconds since the epoch, far above any BIGSERIAL value;
\* the n-th reading (counted from 0) is later than those before it
DateNowBase == 1000000
DateNow(n) == DateNowBase + n

\* parseFloat of the strings an <input type="number"> hands to onChange
\* (a valid floating-point literal; "" never reaches parseFloat)
parseFloat(s) ==
    CASE s = "0"  -> 0
      [] s = "3"  -> 3
      [] s = "5"  -> 5
      [] s = "-2" -> 0 - 2

\* Number.prototype.toString
numToString(n) ==
    CASE n = 0 -> "0"
      [] n = 3 -> "3"
      [] n = 5 -> "5"
      [] n = 0 - 2 -> "-2"

\* String.prototype.trim on the strings the model types
trim(s) ==
    CASE s = " "      -> ""
      [] s = " Bo "   -> "Bo"
      [] s = " y2 "   -> "y2"
      [] OTHER        -> s

\* JavaScript truthiness of a string (or null) and the x || d idiom
truthy(x) == x # "" /\ x # NullStr /\ x # UndefinedStr
orElse(x, d) == IF truthy(x) THEN x ELSE d

-----------------------------------------------------------------------------
(* Sequence helpers.                                                       *)

Range(s) == {s[i] : i \in DOMAIN s}

RECURSIVE insertByCreatedAt(_, _)
insertByCreatedAt(row, s) ==
    IF s = <<>> THEN <<row>>
    ELSE IF row.created_at < Head(s).created_at
         THEN <<row>> \o s
         ELSE <<Head(s)>> \o insertByCreatedAt(row, Tail(s))

RECURSIVE sortAsc(_)
sortAsc(s) == IF s = <<>> THEN <<>> ELSE insertByCreatedAt(Head(s), sortAsc(Tail(s)))

reverse(s) == [i \in 1..Len(s) |-> s[Len(s) + 1 - i]]

-----------------------------------------------------------------------------
(* The backing store: tables records and comments.                         *)

\* PATCH: the columns named in data replace those of the row
patchRow(row, data) ==
    [f \in DOMAIN row |-> IF f \in DOMAIN data THEN data[f] ELSE row[f]]

idsOf(rows) == {rows[i].id : i \in DOMAIN rows}

\* GET /records?select=*&order=created_at.desc
selectRecords == reverse(sortAsc(dbRecords))

\* GET /comments?select=*&order=created_at.asc
selectComments == sortAsc(dbComments)

\* POST /records: id BIGSERIAL, created_at DEFAULT NOW()
insertedRecord(data) ==
    [id |-> recSerial + 1, created_at |-> recSerial + 1,
     date |-> data.date, name |-> data.name, organization |-> data.organization,
     hours |-> data.hours, location |-> data.location,
     participants |-> data.participants, description |-> data.description,
     author_name |-> data.author_name, author_password |-> data.author_password,
     photos |-> data.photos]

\* POST /comments
insertedComment(data) ==
    [id |-> comSerial + 1, created_at |-> comSerial + 1,
     record_id |-> data.record_id, nickname |-> data.nickname,
     password |-> data.password, content |-> data.content,
     timestamp |-> data.timestamp]

\* record_id BIGINT REFERENCES records(id): the referenced row must exist
fkInsertOk(data) == data.record_id \in idsOf(dbRecords)

\* ... and a referenced row cannot be deleted (no ON DELETE clause)
fkDeleteOk(id) == \A i \in DOMAIN dbComments : dbComments[i].record_id # id

\* PATCH /records?id=eq.<id>
updatedRecords(id, data) ==
    [i \in DOMAIN dbRecords |->
        IF dbRecords[i].id = id THEN patchRow(dbRecords[i], data) ELSE dbRecords[i]]

\* DELETE /records?id=eq.<id>
recordsWithout(id) == SelectSeq(dbRecords, LAMBDA r : r.id # id)

\* DELETE /comments?record_id=eq.<id>
commentsWithoutRecord(id) == SelectSeq(dbComments, LAMBDA c : c.record_id # id)

\* DELETE /comments?id=eq.<id>
commentsWithout(id) == SelectSeq(dbComments, LAMBDA c : c.id # id)

-----------------------------------------------------------------------------
(* Configuration and rendering.                                            *)

\* the setup-required screen replaces the whole application
setupRequired ==
    \/ env.SUPABASE_URL = "YOUR_SUPABASE_URL"
    \/ env.SUPABASE_ANON_KEY = "YOUR_SUPABASE_ANON_KEY"

\* fetch(`${this.url}/rest/v1${endpoint}`) with the apikey header: a request
\* reaches the tables only through the deployment's endpoint with its key
endpointOk ==
    /\ env.SUPABASE_URL = "https://volunteer.supabase.co"
    /\ env.SUPABASE_ANON_KEY = "anon-key"

\* while loading, the spinner replaces the whole application, dialogs included;
\* otherwise every rendered control can be operated
rendered == ~setupRequired /\ ~loading

detailRendered == rendered /\ currentView = "detail" /\ selectedRecord # NULL

-----------------------------------------------------------------------------
(* Form draft and comment draft.                                           *)

initialFormData ==
    [date |-> Today, name |-> "", organization |-> "", hours |-> "",
     location |-> "", participants |-> "", description |-> "",
     author_name |-> "", author_password |-> ""]

initialNewComment == [nickname |-> "", password |-> "", content |-> ""]

\* setFormData(prev => ({ ...prev, [field]: value }))
withField(draft, field, value) == [draft EXCEPT ![field] = value]

RECURSIVE withFields(_, _)
\* a run of onChange events, one per (field, value) pair of the sequence
withFields(draft, edits) ==
    IF edits = <<>> THEN draft
    ELSE withFields(withField(draft, Head(edits)[1], Head(edits)[2]), Tail(edits))

\* a required-field test that forgets the author password
createValid_noPassword(fd) ==
    /\ truthy(fd.date) /\ truthy(fd.name) /\ truthy(fd.organization)
    /\ truthy(fd.hours) /\ truthy(fd.author_name)

\* addRecord's required-field test
createValid(fd) ==
    /\ truthy(fd.date) /\ truthy(fd.name) /\ truthy(fd.organization)
    /\ truthy(fd.hours) /\ truthy(fd.author_name) /\ truthy(fd.author_password)

\* updateRecord's required-field test
updateValid(fd) ==
    /\ truthy(fd.date) /\ truthy(fd.name) /\ truthy(fd.organization)
    /\ truthy(fd.hours)

\* a request body whose hours are clamped at zero
newRecordOf_clamped(fd, photos) ==
    [date |-> fd.date, name |-> fd.name, organization |-> fd.organization,
     hours |-> IF parseFloat(fd.hours) < 0 THEN 0 ELSE parseFloat(fd.hours),
     location |-> orElse(fd.location, NullStr),
     participants |-> orElse(fd.participants, NullStr),
     description |-> orElse(fd.description, NullStr),
     author_name |-> fd.author_name, author_password |-> fd.author_password,
     photos |-> photos]

\* the body of addRecord's insert: the draft, with hours: parseFloat(hours)
newRecordOf(fd, photos) ==
    [date |-> fd.date, name |-> fd.name, organization |-> fd.organization,
     hours |-> parseFloat(fd.hours),
     location |-> orElse(fd.location, NullStr),
     participants |-> orElse(fd.participants, NullStr),
     description |-> orElse(fd.description, NullStr),
     author_name |-> fd.author_name, author_password |-> fd.author_password,
     photos |-> photos]

\* a request body that carries the draft's author password too
updatedDataOf_withPassword(fd, photos) ==
    [date |-> fd.date, name |-> fd.name, organization |-> fd.organization,
     hours |-> parseFloat(fd.hours),
     location |-> orElse(fd.location, NullStr),
     participants |-> orElse(fd.participants, NullStr),
     description |-> orElse(fd.description, NullStr),
     author_password |-> fd.author_password,
     photos |-> photos]

\* the body of updateRecord's update
updatedDataOf(fd, photos) ==
    [date |-> fd.date, name |-> fd.name, organization |-> fd.organization,
     hours |-> parseFloat(fd.hours),
     location |-> orElse(fd.location, NullStr),
     participants |-> orElse(fd.participants, NullStr),
     description |-> orElse(fd.description, NullStr),
     photos |-> photos]

\* a draft that takes today's date, as resetForm does
editFormOf_today(record) ==
    [date |-> Today, name |-> record.name,
     organization |-> record.organization,
     hours |-> numToString(record.hours),
     location |-> orElse(record.location, ""),
     participants |-> orElse(record.participants, ""),
     description |-> orElse(record.description, ""),
     author_name |-> record.author_name, author_password |-> ""]

\* the draft openEditModal builds from a record
editFormOf(record) ==
    [date |-> record.date, name |-> record.name,
     organization |-> record.organization,
     hours |-> numToString(record.hours),
     location |-> orElse(record.location, ""),
     participants |-> orElse(record.participants, ""),
     description |-> orElse(record.description, ""),
     author_name |-> record.author_name, author_password |-> ""]

\* addComment's required-field test
commentValid(nc) ==
    truthy(trim(nc.nickname)) /\ truthy(trim(nc.password)) /\ truthy(trim(nc.content))

\* a comment whose password is trimmed like its nickname and content
commentOf_trimmedPassword(recordId, nc) ==
    [record_id |-> recordId, nickname |-> trim(nc.nickname),
     password |-> trim(nc.password), content |-> trim(nc.content),
     timestamp |-> LocaleNow]

\* the body of addComment's insert
commentOf(recordId, nc) ==
    [record_id |-> recordId, nickname |-> trim(nc.nickname),
     password |-> nc.password, content |-> trim(nc.content),
     timestamp |-> LocaleNow]

\* { ...comment, id: Date.now() }
localComment(comment, now) ==
    [record_id |-> comment.record_id, nickname |-> comment.nickname,
     password |-> comment.password, content |-> comment.content,
     timestamp |-> comment.timestamp, id |-> now]

\* the most photos a record may carry
MaxPhotos == 10

\* Array.prototype.slice(0, end): a negative end counts from the end
slice(s, end) ==
    IF end >= 0
    THEN SubSeq(s, 1, IF end < Len(s) THEN end ELSE Len(s))
    ELSE SubSeq(s, 1, IF Len(s) + end > 0 THEN Len(s) + end ELSE 0)

\* an upload that accepts every file chosen
filesToAdd_all(files, staged) == files

\* handlePhotoUpload: files.slice(0, 10 - selectedPhotos.length)
filesToAdd(files, staged) == slice(files, MaxPhotos - Len(staged))

\* FileReader.readAsDataURL
readAsDataURL(file) == [url |-> "data:image/png;base64", of |-> file]

\* the pending conversions after those of files have been started
RECURSIVE reading(_, _)
reading(pending, files) ==
    IF files = <<>> THEN pending
    ELSE reading(pending (+) SetToBag({readAsDataURL(Head(files))}), Tail(files))

\* gates that compare with the wrong operand: the draft's password field, an
\* admin secret defaulting to the empty string, the comment box's password
editPasswordOk_draft == editPassword = formData.author_password
adminPasswordOk_default ==
    adminPassword = (IF env.ADMIN_PASSWORD = UndefinedStr THEN "" ELSE env.ADMIN_PASSWORD)
commentPasswordOk_draft == commentPassword = newComment.password

\* the password gates
editPasswordOk == editPassword = editTarget.author_password
adminPasswordOk == adminPassword = env.ADMIN_PASSWORD
commentPasswordOk == commentPassword = commentToDelete.password

-----------------------------------------------------------------------------
(* The gateway: SupabaseClient.fetch, and the replies it can get.          *)

\* a response body: its characters and, when they are JSON, what they denote
Body(chars, valid, value) == [chars |-> chars, valid |-> valid, value |-> value]
noBody == Body("", FALSE, <<>>)
htmlBody == Body("<!DOCTYPE html>", FALSE, <<>>)
errorBody == Body("{message: refused}", TRUE, <<>>)

\* JSON.stringify of the rows a select returns
JSONstringify(rows) == Body("[...]", TRUE, rows)

Response(ok, status, text) == [ok |-> ok, status |-> status, text |-> text]
noResponse == Response(FALSE, 0, noBody)

\* what a call of fetch comes to: a value returned, or an Error thrown with
\* its message and the status and body the message quotes
returned(value) ==
    [threw |-> FALSE, value |-> value, message |-> "", status |-> 0,
     text |-> noBody]
thrown(message, status, text) ==
    [threw |-> TRUE, value |-> <<>>, message |-> message, status |-> status,
     text |-> text]

\* a fetch that parses whatever body arrives, whatever the status
fetch_anyStatus(response) ==
    IF response.text.chars = "" THEN returned(<<>>)
    ELSE IF response.text.valid THEN returned(response.text.value)
    ELSE thrown("Invalid JSON response from server", 0, noBody)

\* SupabaseClient.fetch, from the response on
fetch(response) ==
    IF ~response.ok
    THEN thrown("HTTP error! status", response.status, response.text)
    ELSE IF response.text.chars = "" THEN returned(<<>>)
    ELSE IF response.text.valid THEN returned(response.text.value)
    ELSE thrown("Invalid JSON response from server", 0, noBody)

\* The store's replies: to a select, the rows; to a mutation it has applied,
\* an empty body (no Prefer: return=representation header is sent); to a
\* request it does not apply, an error.
selected(rows) == Response(TRUE, 200, JSONstringify(rows))
created == Response(TRUE, 201, noBody)
applied == Response(TRUE, 204, noBody)
conflict == Response(FALSE, 409, errorBody)
refused == Response(FALSE, 500, errorBody)

\* a host that is not the store answers with a page
intercepted == Response(TRUE, 200, htmlBody)

\* The responses a request may get when reply is what the store would answer:
\* that reply, if the request reaches the store, or a failure.  The store has
\* applied a request exactly when its reply was delivered.
replies(reply) == (IF endpointOk THEN {reply} ELSE {}) \cup {refused, intercepted}

-----------------------------------------------------------------------------
(* loadRecords.                                                            *)

\* a join that matches on the comment's own id instead of its record_id
joinComments_byCommentId(recordsData, commentsData) ==
    [i \in DOMAIN recordsData |->
        [comments |-> SelectSeq(commentsData,
                                LAMBDA c : c.id = recordsData[i].id)]
        @@ recordsData[i]]

\* recordsData.map(record => ({...record, comments: commentsData.filter(...)}))
joinComments(recordsData, commentsData) ==
    [i \in DOMAIN recordsData |->
        [comments |-> SelectSeq(commentsData,
                                LAMBDA c : c.record_id = recordsData[i].id)]
        @@ recordsData[i]]

\* records.find(r => r.id === recordId)
findRecord(recs, recordId) ==
    IF \E i \in DOMAIN recs : recs[i].id = recordId
    THEN recs[CHOOSE i \in DOMAIN recs :
                 /\ recs[i].id = recordId
                 /\ \A j \in DOMAIN recs : recs[j].id = recordId => i <= j]
    ELSE NULL

\* A suspended handler.  kind: the handler; pc: the request it awaits;
\* rid / cid / form / data / found: what its closure captured (the target
\* row, the draft, the request body, updatedRecord); recordsData: the
\* result of loadRecords' first select once it has settled.  For the two
\* inserting handlers rid / cid also note, once the insert has settled, the
\* identifier the store assigned (the handler itself never reads it).
Task(kind, pc, rid, cid, form, data, found, recordsData) ==
    [kind |-> kind, pc |-> pc, rid |-> rid, cid |-> cid, form |-> form,
     data |-> data, found |-> found, recordsData |-> recordsData]

\* a captured value of which the handler later reads only whether it is null
captured(x) == IF x = NULL THEN NULL ELSE [object |-> TRUE]

spawn(t) == tasks (+) SetToBag({t})
retire(t) == tasks (-) SetToBag({t})
become(t, t2) == (tasks (-) SetToBag({t})) (+) SetToBag({t2})

\* loadRecords entered by a handler whose mutation has resolved
enterLoad(t) == [t EXCEPT !.pc = "selRecords"]

\* How a pending loadRecords can end at the select it is awaiting: the select
\* fails (either one), or the second select succeeds and the join is stored.
loadOutcomes(t) ==
    LET reply == selected(IF t.pc = "selComments" THEN selectComments
                                                   ELSE selectRecords)
    IN  {[ok |-> ~fetch(r).threw,
          recs |-> joinComments(t.recordsData, fetch(r).value),
          response |-> r] :
            r \in {x \in replies(reply) : fetch(x).threw \/ t.pc = "selComments"}}

\* a reload that empties the store when a fetch fails
storeAfterLoad_cleared(o) == IF o.ok THEN o.recs ELSE <<>>

\* the store after loadRecords has ended with outcome o
storeAfterLoad(o) == IF o.ok THEN o.recs ELSE records

loadAlerts(o) == IF o.ok THEN <<>> ELSE <<"load failed">>

awaitingLoad(kind) ==
    {t \in BagToSet(tasks) : t.kind = kind /\ t.pc \in {"selRecords", "selComments"}}

awaiting(kind, pc) == {t \in BagToSet(tasks) : t.kind = kind /\ t.pc = pc}

\* What the step just taken was: the handler (op), where it was entered (at:
\* "click", or the await it resumed from), the alerts it raised, in order, and
\* the row it was about.  Steps that raise no alert and end no handler are quiet.
Event(op, at, alerts, id) ==
    [op |-> op, at |-> at, alerts |-> alerts, id |-> id, response |-> noResponse]
quiet == Event("event", "", <<>>, NullId)

\* ... of a step that resumed from an await: the response that had arrived
heard(event, response) == [event EXCEPT !.response = response]

-----------------------------------------------------------------------------
(* The sort view.                                                          *)

\* new Date(dateString), in days since 2024-01-01, for the dates of the model
dateValue(d) ==
    CASE d = "2024-01-15" -> 14
      [] d = "2024-02-01" -> 31
      [] d = "2024-02-29" -> 59
      [] d = "2024-03-01" -> 60

\* the comparator getSortedRecords hands to sort
compareDates(a, b, order) ==
    IF order = "newest"
    THEN dateValue(b.date) - dateValue(a.date)
    ELSE dateValue(a.date) - dateValue(b.date)

\* Array.prototype.sort is stable: an element stays ahead of the later
\* elements the comparator does not place before it
RECURSIVE insertSorted(_, _, _)
insertSorted(r, s, order) ==
    IF s = <<>> THEN <<r>>
    ELSE IF compareDates(r, Head(s), order) <= 0
         THEN <<r>> \o s
         ELSE <<Head(s)>> \o insertSorted(r, Tail(s), order)

\* a sort whose ascending view is the descending view turned around
RECURSIVE sorted_turned(_, _)
sorted_turned(recs, order) ==
    IF order = "oldest" THEN reverse(sorted_turned(recs, "newest"))
    ELSE IF recs = <<>> THEN <<>>
    ELSE insertSorted(Head(recs), sorted_turned(Tail(recs), order), order)

\* [...recs].sort(comparator)
RECURSIVE sorted(_, _)
sorted(recs, order) ==
    IF recs = <<>> THEN <<>>
    ELSE insertSorted(Head(recs), sorted(Tail(recs), order), order)

\* the cards of the list view
getSortedRecords == sorted(records, sortOrder)

-----------------------------------------------------------------------------
(* Initial state: the component has mounted and its effect has called      *)
(* loadRecords, whose first select is in flight.                           *)

seedRecord(id, date) ==
    [id |-> id, created_at |-> id, date |-> date, name |-> "Soup Kitchen",
     organization |-> "City Shelter", hours |-> 3, location |-> NullStr,
     participants |-> NullStr, description |-> NullStr, author_name |-> "Ana",
     author_password |-> "x1", photos |-> <<>>]

seedComment(id, recordId) ==
    [id |-> id, created_at |-> id, record_id |-> recordId, nickname |-> "Bo",
     password |-> "y2", content |-> "Great work", timestamp |-> LocaleNow]

\* process.env of a configured deployment, with and without an admin secret
configured(admin) ==
    [SUPABASE_URL |-> "https://volunteer.supabase.co",
     SUPABASE_ANON_KEY |-> "anon-key", ADMIN_PASSWORD |-> admin]

\* process.env of a deployment whose variable v holds x: the placeholder of
\* the setup page, or nothing at all
misconfigured(v, x) == [configured("admin") EXCEPT ![v] = x]
Misconfigurations ==
    {misconfigured("SUPABASE_URL", "YOUR_SUPABASE_URL"),
     misconfigured("SUPABASE_ANON_KEY", "YOUR_SUPABASE_ANON_KEY"),
     misconfigured("SUPABASE_URL", UndefinedStr),
     misconfigured("SUPABASE_ANON_KEY", UndefinedStr)}

\* contents the tables may have when the page is opened
emptyStore == [records |-> <<>>, comments |-> <<>>]
oneRecordStore ==
    [records |-> <<seedRecord(1, "2024-02-01")>>, comments |-> <<>>]
commentedStore ==
    [records |-> <<seedRecord(1, "2024-02-01")>>,
     comments |-> <<seedComment(1, 1)>>]
twoRecordStore ==
    [records |-> <<seedRecord(1, "2024-02-01"), seedRecord(2, "2024-01-15")>>,
     comments |-> <<seedComment(1, 2), seedComment(2, 1), seedComment(3, 2)>>]

mountTask == Task("mount", "selRecords", NullId, NullId, NULL, NULL, NULL, <<>>)

InitReact ==
    /\ records = <<>>
    /\ loading = TRUE
    /\ currentView = "main"
    /\ selectedRecord = NULL
    /\ showModal = FALSE
    /\ showEditModal = FALSE
    /\ showDeleteModal = FALSE
    /\ showCommentDeleteModal = FALSE
    /\ deleteTarget = NullId
    /\ editTarget = NULL
    /\ selectedPhotos = <<>>
    /\ adminPassword = ""
    /\ commentToDelete = NULL
    /\ commentPassword = ""
    /\ editPassword = ""
    /\ newComment = initialNewComment
    /\ sortOrder = "newest"
    /\ formData = initialFormData

InitWith(stores, envs) ==
    /\ \E st \in stores :
          /\ dbRecords = st.records
          /\ dbComments = st.comments
          /\ recSerial = Len(st.records)
          /\ comSerial = Len(st.comments)
    /\ env \in envs
    /\ InitReact

-----------------------------------------------------------------------------
(* Synchronous event handlers: navigation, dialogs, inputs.                *)

backend == <<dbVars, env, tasks, readers, stamps, submitted>>

\* header button: setShowModal(true)
openModal ==
    /\ rendered
    /\ showModal' = TRUE
    /\ last' = quiet
    /\ UNCHANGED <<backend, records, loading, viewVars, showEditModal,
                   showDeleteModal, showCommentDeleteModal, deleteTarget,
                   editTarget, commentToDelete, credVars, newComment, formVars>>

\* create dialog X: setShowModal(false); resetForm()
closeModal ==
    /\ rendered /\ showModal
    /\ showModal' = FALSE
    /\ formData' = initialFormData
    /\ selectedPhotos' = <<>>
    /\ last' = quiet
    /\ UNCHANGED <<backend, records, loading, viewVars, showEditModal,
                   showDeleteModal, showCommentDeleteModal, deleteTarget,
                   editTarget, commentToDelete, credVars, newComment>>

\* onChange of the draft's inputs, while a dialog showing them is open
handleInputChange(edits) ==
    /\ rendered /\ (showModal \/ showEditModal)
    /\ \A k \in DOMAIN edits :
          edits[k][1] \in {"author_name", "author_password"} => showModal
    /\ formData' = withFields(formData, edits)
    /\ formData' # formData
    /\ last' = quiet
    /\ UNCHANGED <<backend, records, loading, viewVars, modalVars, credVars,
                   newComment, selectedPhotos>>

\* onChange of the comment box of the detail view
handleCommentChange(edits) ==
    /\ detailRendered
    /\ newComment' = withFields(newComment, edits)
    /\ newComment' # newComment
    /\ last' = quiet
    /\ UNCHANGED <<backend, records, loading, viewVars, modalVars, credVars,
                   formVars>>

\* a card that switches to the detail view without selecting its record
selectRecord_viewOnly(i) ==
    /\ rendered /\ currentView = "main"
    /\ i \in DOMAIN records
    /\ currentView' = "detail"
    /\ last' = quiet
    /\ UNCHANGED <<backend, records, loading, selectedRecord, sortOrder,
                   modalVars, credVars, newComment, formVars>>

\* a card of the list: setSelectedRecord(record); setCurrentView('detail')
selectRecord(i) ==
    /\ rendered /\ currentView = "main"
    /\ i \in DOMAIN records
    /\ selectedRecord' = records[i]
    /\ currentView' = "detail"
    /\ last' = quiet
    /\ UNCHANGED <<backend, records, loading, sortOrder, modalVars, credVars,
                   newComment, formVars>>

\* the sort select of the list, shown when there are records
setSortOrder(v) ==
    /\ rendered /\ currentView = "main" /\ Len(records) > 0
    /\ sortOrder' = v
    /\ sortOrder' # sortOrder
    /\ last' = quiet
    /\ UNCHANGED <<backend, records, loading, currentView, selectedRecord,
                   modalVars, credVars, newComment, formVars>>

\* header back arrow: setCurrentView('main')
goBack ==
    /\ rendered /\ currentView = "detail"
    /\ currentView' = "main"
    /\ last' = quiet
    /\ UNCHANGED <<backend, records, loading, selectedRecord, sortOrder,
                   modalVars, credVars, newComment, formVars>>

\* an edit dialog that opens with the password input as it was left
openEditModal_keepsPassword ==
    /\ detailRendered
    /\ editTarget' = selectedRecord
    /\ formData' = editFormOf(selectedRecord)
    /\ selectedPhotos' = selectedRecord.photos
    /\ showEditModal' = TRUE
    /\ last' = quiet
    /\ UNCHANGED <<backend, records, loading, viewVars, showModal,
                   showDeleteModal, showCommentDeleteModal, deleteTarget,
                   commentToDelete, credVars, newComment>>

openEditModal ==
    /\ detailRendered
    /\ editTarget' = selectedRecord
    /\ formData' = editFormOf(selectedRecord)
    /\ selectedPhotos' = selectedRecord.photos
    /\ showEditModal' = TRUE
    /\ editPassword' = ""
    /\ last' = quiet
    /\ UNCHANGED <<backend, records, loading, viewVars, showModal,
                   showDeleteModal, showCommentDeleteModal, deleteTarget,
                   commentToDelete, adminPassword, commentPassword, newComment>>

\* an edit dialog X that drops the target and the draft but leaves the dialog up
closeEditModal_targetOnly ==
    /\ rendered /\ showEditModal
    /\ editTarget' = NULL
    /\ formData' = initialFormData
    /\ selectedPhotos' = <<>>
    /\ last' = quiet
    /\ UNCHANGED <<backend, records, loading, viewVars, showModal, showEditModal,
                   showDeleteModal, showCommentDeleteModal, deleteTarget,
                   commentToDelete, credVars, newComment>>

\* edit dialog X: setShowEditModal(false); setEditTarget(null); resetForm()
closeEditModal ==
    /\ rendered /\ showEditModal
    /\ showEditModal' = FALSE
    /\ editTarget' = NULL
    /\ formData' = initialFormData
    /\ selectedPhotos' = <<>>
    /\ last' = quiet
    /\ UNCHANGED <<backend, records, loading, viewVars, showModal,
                   showDeleteModal, showCommentDeleteModal, deleteTarget,
                   commentToDelete, credVars, newComment>>

typeEditPassword(v) ==
    /\ rendered /\ showEditModal
    /\ editPassword' = v
    /\ editPassword' # editPassword
    /\ last' = quiet
    /\ UNCHANGED <<backend, records, loading, viewVars, modalVars,
                   adminPassword, commentPassword, newComment, formVars>>

openDeleteModal ==
    /\ detailRendered
    /\ deleteTarget' = selectedRecord.id
    /\ showDeleteModal' = TRUE
    /\ adminPassword' = ""
    /\ last' = quiet
    /\ UNCHANGED <<backend, records, loading, viewVars, showModal,
                   showEditModal, showCommentDeleteModal, editTarget,
                   commentToDelete, commentPassword, editPassword, newComment,
                   formVars>>

\* admin dialog cancel
closeDeleteModal ==
    /\ rendered /\ showDeleteModal
    /\ showDeleteModal' = FALSE
    /\ deleteTarget' = NullId
    /\ adminPassword' = ""
    /\ last' = quiet
    /\ UNCHANGED <<backend, records, loading, viewVars, showModal,
                   showEditModal, showCommentDeleteModal, editTarget,
                   commentToDelete, commentPassword, editPassword, newComment,
                   formVars>>

typeAdminPassword(v) ==
    /\ rendered /\ showDeleteModal
    /\ adminPassword' = v
    /\ adminPassword' # adminPassword
    /\ last' = quiet
    /\ UNCHANGED <<backend, records, loading, viewVars, modalVars,
                   commentPassword, editPassword, newComment, formVars>>

openCommentDeleteModal(i) ==
    /\ detailRendered
    /\ i \in DOMAIN selectedRecord.comments
    /\ commentToDelete' = selectedRecord.comments[i]
    /\ showCommentDeleteModal' = TRUE
    /\ commentPassword' = ""
    /\ last' = quiet
    /\ UNCHANGED <<backend, records, loading, viewVars, showModal,
                   showEditModal, showDeleteModal, deleteTarget, editTarget,
                   adminPassword, editPassword, newComment, formVars>>

\* comment dialog cancel
closeCommentDeleteModal ==
    /\ rendered /\ showCommentDeleteModal
    /\ showCommentDeleteModal' = FALSE
    /\ commentToDelete' = NULL
    /\ commentPassword' = ""
    /\ last' = quiet
    /\ UNCHANGED <<backend, records, loading, viewVars, showModal,
                   showEditModal, showDeleteModal, deleteTarget, editTarget,
                   adminPassword, editPassword, newComment, formVars>>

typeCommentPassword(v) ==
    /\ rendered /\ showCommentDeleteModal
    /\ commentPassword' = v
    /\ commentPassword' # commentPassword
    /\ last' = quiet
    /\ UNCHANGED <<backend, records, loading, viewVars, modalVars,
                   adminPassword, editPassword, newComment, formVars>>

\* onChange of the file input of the create and edit dialogs; the event's
\* id is filesToAdd.length, the number the alert reports
handlePhotoUpload(files) ==
    /\ rendered /\ (showModal \/ showEditModal)
    /\ Len(selectedPhotos) + BagCardinality(readers) <= MaxBacklog
    /\ readers' = reading(readers, filesToAdd(files, selectedPhotos))
    /\ last' = Event("handlePhotoUpload", "change",
                     IF Len(files) > MaxPhotos - Len(selectedPhotos)
                     THEN <<"photo limit">> ELSE <<>>,
                     Len(filesToAdd(files, selectedPhotos)))
    /\ UNCHANGED <<dbVars, env, uiVars, tasks, stamps, submitted>>

\* reader.onload: setSelectedPhotos(prev => [...prev, e.target.result])
reader_onload ==
    \E r \in BagToSet(readers) :
        /\ selectedPhotos' = Append(selectedPhotos, r)
        /\ readers' = readers (-) SetToBag({r})
        /\ last' = quiet
        /\ UNCHANGED <<dbVars, env, records, loading, viewVars, modalVars,
                       credVars, newComment, formData, tasks, stamps, submitted>>

\* the X on a staged photo
removePhoto(index) ==
    /\ rendered /\ (showModal \/ showEditModal)
    /\ index \in DOMAIN selectedPhotos
    /\ selectedPhotos' =
          [i \in 1..(Len(selectedPhotos) - 1) |->
              IF i < index THEN selectedPhotos[i] ELSE selectedPhotos[i + 1]]
    /\ last' = quiet
    /\ UNCHANGED <<backend, records, loading, viewVars, modalVars, credVars,
                   newComment, formData>>

-----------------------------------------------------------------------------
(* Asynchronous handlers, up to their first await.                         *)

\* what a handler that returns before any await leaves alone
untouched == <<dbVars, env, uiVars, tasks, readers, stamps, submitted>>

\* what a handler that reaches its first await leaves alone
suspended == <<dbVars, env, uiVars, readers, stamps>>

\* a create that closes its dialog and resets the draft before it awaits
addRecord_optimistic ==
    /\ rendered /\ showModal
    /\ IF ~createValid(formData)
       THEN /\ last' = Event("addRecord", "click", <<"required fields">>, NullId)
            /\ UNCHANGED untouched
       ELSE /\ submitted < MaxActions
            /\ tasks' = spawn(Task("addRecord", "insert", NullId, NullId, formData,
                                   newRecordOf(formData, selectedPhotos), NULL, <<>>))
            /\ submitted' = submitted + 1
            /\ showModal' = FALSE
            /\ formData' = initialFormData
            /\ selectedPhotos' = <<>>
            /\ last' = Event("addRecord", "click", <<>>, NullId)
            /\ UNCHANGED <<dbVars, env, records, loading, viewVars,
                           showEditModal, showDeleteModal,
                           showCommentDeleteModal, deleteTarget, editTarget,
                           commentToDelete, credVars, newComment, readers,
                           stamps>>

addRecord ==
    /\ rendered /\ showModal
    /\ IF ~createValid(formData)
       THEN /\ last' = Event("addRecord", "click", <<"required fields">>, NullId)
            /\ UNCHANGED untouched
       ELSE /\ submitted < MaxActions
            /\ tasks' = spawn(Task("addRecord", "insert", NullId, NullId, formData,
                                   newRecordOf(formData, selectedPhotos), NULL, <<>>))
            /\ submitted' = submitted + 1
            /\ last' = Event("addRecord", "click", <<>>, NullId)
            /\ UNCHANGED suspended

updateRecord ==
    /\ rendered /\ showEditModal
    /\ IF editTarget = NULL
       THEN /\ last' = Event("updateRecord", "click", <<"TypeError">>, NullId)
            /\ UNCHANGED untouched
       ELSE IF ~editPasswordOk
       THEN /\ last' = Event("updateRecord", "click", <<"wrong password">>, editTarget.id)
            /\ UNCHANGED untouched
       ELSE IF ~updateValid(formData)
       THEN /\ last' = Event("updateRecord", "click", <<"required fields">>, editTarget.id)
            /\ UNCHANGED untouched
       ELSE /\ submitted < MaxActions
            /\ tasks' = spawn(Task("updateRecord", "update", editTarget.id, NullId, formData,
                                   updatedDataOf(formData, selectedPhotos), NULL, <<>>))
            /\ submitted' = submitted + 1
            /\ last' = Event("updateRecord", "click", <<>>, editTarget.id)
            /\ UNCHANGED suspended

deleteRecord ==
    /\ rendered /\ showDeleteModal
    /\ IF ~adminPasswordOk
       THEN /\ last' = Event("deleteRecord", "click", <<"wrong admin password">>, deleteTarget)
            /\ UNCHANGED untouched
       ELSE /\ submitted < MaxActions
            /\ tasks' = spawn(Task("deleteRecord", "deleteComments", deleteTarget,
                                   NullId, NULL, NULL, NULL, <<>>))
            /\ submitted' = submitted + 1
            /\ last' = Event("deleteRecord", "click", <<>>, deleteTarget)
            /\ UNCHANGED suspended

\* the button passes selectedRecord.id; the closure holds this render's records
addComment ==
    /\ detailRendered
    /\ IF ~commentValid(newComment)
       THEN /\ last' = Event("addComment", "click", <<"comment fields required">>,
                             selectedRecord.id)
            /\ UNCHANGED untouched
       ELSE /\ submitted < MaxActions
            /\ tasks' = spawn(Task("addComment", "insert", selectedRecord.id, NullId, NULL,
                                   commentOf(selectedRecord.id, newComment),
                                   findRecord(records, selectedRecord.id), <<>>))
            /\ submitted' = submitted + 1
            /\ last' = Event("addComment", "click", <<>>, selectedRecord.id)
            /\ UNCHANGED suspended

deleteComment ==
    /\ rendered /\ showCommentDeleteModal
    /\ IF commentToDelete = NULL
       THEN /\ last' = Event("deleteComment", "click", <<"TypeError">>, NullId)
            /\ UNCHANGED untouched
       ELSE IF ~commentPasswordOk
       THEN /\ last' = Event("deleteComment", "click", <<"wrong password">>, commentToDelete.id)
            /\ UNCHANGED untouched
       ELSE /\ submitted < MaxActions
            /\ tasks' = spawn(Task("deleteComment", "delete", NullId,
                                   commentToDelete.id, NULL, NULL,
                                   captured(selectedRecord), <<>>))
            /\ submitted' = submitted + 1
            /\ last' = Event("deleteComment", "click", <<>>, commentToDelete.id)
            /\ UNCHANGED suspended

-----------------------------------------------------------------------------
(* A mutation request settles: the store applies it (ok) or the request    *)
(* fails; on success the handler goes on to its next await, on failure to  *)
(* its catch block.                                                        *)

\* what a settling mutation leaves alone in the component when it succeeds
\* and loadRecords starts (setLoading(true))
loadStarts == <<env, records, viewVars, modalVars, credVars, newComment,
                formVars, readers, stamps, submitted>>

\* ... and when it fails
caught == <<dbVars, env, uiVars, readers, stamps, submitted>>

addRecord_insert ==
  \E t \in awaiting("addRecord", "insert") :
  \E resp \in replies(created) :
    /\ IF ~fetch(resp).threw
       THEN /\ dbRecords' = Append(dbRecords, insertedRecord(t.data))
            /\ recSerial' = recSerial + 1
            /\ loading' = TRUE
            /\ tasks' = become(t, [enterLoad(t) EXCEPT !.rid = recSerial + 1])
            /\ last' = heard(quiet, resp)
            /\ UNCHANGED <<dbComments, comSerial, loadStarts>>
       ELSE /\ tasks' = retire(t)
            /\ last' = heard(Event("addRecord", t.pc, <<"add failed">>, NullId), resp)
            /\ UNCHANGED caught

updateRecord_update ==
  \E t \in awaiting("updateRecord", "update") :
  \E resp \in replies(applied) :
    /\ IF ~fetch(resp).threw
       THEN /\ dbRecords' = updatedRecords(t.rid, t.data)
            /\ loading' = TRUE
            /\ tasks' = become(t, enterLoad(t))
            /\ last' = heard(quiet, resp)
            /\ UNCHANGED <<dbComments, recSerial, comSerial, loadStarts>>
       ELSE /\ tasks' = retire(t)
            /\ last' = heard(Event("updateRecord", t.pc, <<"update failed">>, t.rid), resp)
            /\ UNCHANGED caught

\* a delete that goes on to the record whatever became of the comments
deleteRecord_deleteComments_unchecked ==
  \E t \in awaiting("deleteRecord", "deleteComments") :
  \E resp \in replies(applied) :
    /\ dbComments' = IF ~fetch(resp).threw THEN commentsWithoutRecord(t.rid) ELSE dbComments
    /\ tasks' = become(t, [t EXCEPT !.pc = "deleteRecord"])
    /\ last' = heard(quiet, resp)
    /\ UNCHANGED <<dbRecords, recSerial, comSerial, env, uiVars,
                   readers, stamps, submitted>>

deleteRecord_deleteComments ==
  \E t \in awaiting("deleteRecord", "deleteComments") :
  \E resp \in replies(applied) :
    /\ IF ~fetch(resp).threw
       THEN /\ dbComments' = commentsWithoutRecord(t.rid)
            /\ tasks' = become(t, [t EXCEPT !.pc = "deleteRecord"])
            /\ last' = heard(quiet, resp)
            /\ UNCHANGED <<dbRecords, recSerial, comSerial, env, uiVars,
                           readers, stamps, submitted>>
       ELSE /\ tasks' = retire(t)
            /\ last' = heard(Event("deleteRecord", t.pc, <<"delete failed">>, t.rid), resp)
            /\ UNCHANGED caught

\* the store refuses to delete a record some comment still references
deleteRecord_deleteRecord ==
  \E t \in awaiting("deleteRecord", "deleteRecord") :
  \E resp \in replies(IF fkDeleteOk(t.rid) THEN applied ELSE conflict) :
    /\ IF ~fetch(resp).threw
       THEN /\ dbRecords' = recordsWithout(t.rid)
            /\ loading' = TRUE
            /\ tasks' = become(t, enterLoad(t))
            /\ last' = heard(quiet, resp)
            /\ UNCHANGED <<dbComments, recSerial, comSerial, loadStarts>>
       ELSE /\ tasks' = retire(t)
            /\ last' = heard(Event("deleteRecord", t.pc, <<"delete failed">>, t.rid), resp)
            /\ UNCHANGED caught

\* an add-comment that empties the comment box when its insert has failed
addComment_insert_clearing ==
  \E t \in awaiting("addComment", "insert") :
  \E resp \in replies(IF fkInsertOk(t.data) THEN created ELSE conflict) :
    /\ IF ~fetch(resp).threw
       THEN /\ dbComments' = Append(dbComments, insertedComment(t.data))
            /\ comSerial' = comSerial + 1
            /\ loading' = TRUE
            /\ tasks' = become(t, [enterLoad(t) EXCEPT !.cid = comSerial + 1])
            /\ last' = heard(quiet, resp)
            /\ UNCHANGED <<dbRecords, recSerial, loadStarts>>
       ELSE /\ tasks' = retire(t)
            /\ newComment' = initialNewComment
            /\ last' = heard(Event("addComment", t.pc, <<"comment add failed">>, t.rid), resp)
            /\ UNCHANGED <<dbVars, env, records, loading, viewVars, modalVars,
                           credVars, formVars, readers, stamps, submitted>>

\* the store refuses a comment whose record_id names no record
addComment_insert ==
  \E t \in awaiting("addComment", "insert") :
  \E resp \in replies(IF fkInsertOk(t.data) THEN created ELSE conflict) :
    /\ IF ~fetch(resp).threw
       THEN /\ dbComments' = Append(dbComments, insertedComment(t.data))
            /\ comSerial' = comSerial + 1
            /\ loading' = TRUE
            /\ tasks' = become(t, [enterLoad(t) EXCEPT !.cid = comSerial + 1])
            /\ last' = heard(quiet, resp)
            /\ UNCHANGED <<dbRecords, recSerial, loadStarts>>
       ELSE /\ tasks' = retire(t)
            /\ last' = heard(Event("addComment", t.pc, <<"comment add failed">>, t.rid), resp)
            /\ UNCHANGED caught

deleteComment_delete ==
  \E t \in awaiting("deleteComment", "delete") :
  \E resp \in replies(applied) :
    /\ IF ~fetch(resp).threw
       THEN /\ dbComments' = commentsWithout(t.cid)
            /\ loading' = TRUE
            /\ tasks' = become(t, enterLoad(t))
            /\ last' = heard(quiet, resp)
            /\ UNCHANGED <<dbRecords, recSerial, comSerial, loadStarts>>
       ELSE /\ tasks' = retire(t)
            /\ last' = heard(Event("deleteComment", t.pc, <<"comment delete failed">>, t.cid), resp)
            /\ UNCHANGED caught

-----------------------------------------------------------------------------
(* loadRecords: its first select settles; then it ends (at a failed select *)
(* or at the second select) and the handler awaiting it runs to its end.   *)

loadRecords_selectRecords ==
  \E t \in {u \in BagToSet(tasks) : u.pc = "selRecords"} :
  \E resp \in replies(selected(selectRecords)) :
    /\ ~fetch(resp).threw
    /\ tasks' = become(t, [t EXCEPT !.pc = "selComments",
                                    !.recordsData = fetch(resp).value])
    /\ last' = heard(quiet, resp)
    /\ UNCHANGED <<dbVars, env, uiVars, readers, stamps, submitted>>

\* a loadRecords that resets the loading flag in its try block, not in finally
mount_done_noFinally ==
  \E t \in awaitingLoad("mount") : \E o \in loadOutcomes(t) :
    /\ records' = storeAfterLoad(o)
    /\ loading' = IF o.ok THEN FALSE ELSE loading
    /\ tasks' = retire(t)
    /\ last' = heard(Event("loadRecords", t.pc, loadAlerts(o), NullId),
                     o.response)
    /\ UNCHANGED <<dbVars, env, viewVars, modalVars, credVars, newComment,
                   formVars, readers, stamps, submitted>>

\* the effect of the first render: useEffect(() => { loadRecords(); }, [])
mount_done ==
  \E t \in awaitingLoad("mount") : \E o \in loadOutcomes(t) :
    /\ records' = storeAfterLoad(o)
    /\ loading' = FALSE
    /\ tasks' = retire(t)
    /\ last' = heard(Event("loadRecords", t.pc, loadAlerts(o), NullId),
                     o.response)
    /\ UNCHANGED <<dbVars, env, viewVars, modalVars, credVars, newComment,
                   formVars, readers, stamps, submitted>>

addRecord_done ==
  \E t \in awaitingLoad("addRecord") : \E o \in loadOutcomes(t) :
    /\ records' = storeAfterLoad(o)
    /\ loading' = FALSE
    /\ showModal' = FALSE
    /\ formData' = initialFormData
    /\ selectedPhotos' = <<>>
    /\ tasks' = retire(t)
    /\ last' = heard(Event("addRecord", t.pc, loadAlerts(o) \o <<"record added">>, t.rid),
                     o.response)
    /\ UNCHANGED <<dbVars, env, viewVars, showEditModal, showDeleteModal,
                   showCommentDeleteModal, deleteTarget, editTarget,
                   commentToDelete, credVars, newComment, readers, stamps,
                   submitted>>

updateRecord_done ==
  \E t \in awaitingLoad("updateRecord") : \E o \in loadOutcomes(t) :
    /\ records' = storeAfterLoad(o)
    /\ loading' = FALSE
    /\ showEditModal' = FALSE
    /\ editTarget' = NULL
    /\ editPassword' = ""
    /\ formData' = initialFormData
    /\ selectedPhotos' = <<>>
    /\ currentView' = "main"
    /\ tasks' = retire(t)
    /\ last' = heard(Event("updateRecord", t.pc, loadAlerts(o) \o <<"record updated">>, t.rid),
                     o.response)
    /\ UNCHANGED <<dbVars, env, selectedRecord, sortOrder, showModal,
                   showDeleteModal, showCommentDeleteModal, deleteTarget,
                   commentToDelete, adminPassword, commentPassword, newComment,
                   readers, stamps, submitted>>

deleteRecord_done ==
  \E t \in awaitingLoad("deleteRecord") : \E o \in loadOutcomes(t) :
    /\ records' = storeAfterLoad(o)
    /\ loading' = FALSE
    /\ showDeleteModal' = FALSE
    /\ deleteTarget' = NullId
    /\ adminPassword' = ""
    /\ currentView' = "main"
    /\ tasks' = retire(t)
    /\ last' = heard(Event("deleteRecord", t.pc, loadAlerts(o) \o <<"record deleted">>, t.rid),
                     o.response)
    /\ UNCHANGED <<dbVars, env, selectedRecord, sortOrder, showModal,
                   showEditModal, showCommentDeleteModal, editTarget,
                   commentToDelete, commentPassword, editPassword, newComment,
                   formVars, readers, stamps, submitted>>

\* updatedRecord is looked up in the records of the render that invoked the
\* handler (t.found); the appended comment gets Date.now() as its id
addComment_done ==
  \E t \in awaitingLoad("addComment") : \E o \in loadOutcomes(t) :
    /\ records' = storeAfterLoad(o)
    /\ loading' = FALSE
    /\ IF t.found # NULL
       THEN /\ selectedRecord' =
                  [t.found EXCEPT !.comments =
                      Append(@, localComment(t.data, DateNow(Len(stamps))))]
            /\ stamps' = Append(stamps, t.cid)
       ELSE UNCHANGED <<selectedRecord, stamps>>
    /\ newComment' = initialNewComment
    /\ tasks' = retire(t)
    /\ last' = heard(Event("addComment", t.pc, loadAlerts(o) \o <<"comment added">>, t.cid),
                     o.response)
    /\ UNCHANGED <<dbVars, env, currentView, sortOrder, modalVars, credVars,
                   formVars, readers, submitted>>

\* the test of selectedRecord reads the invoking render's value (t.found);
\* the updater function receives the current one
deleteComment_done ==
  \E t \in awaitingLoad("deleteComment") : \E o \in loadOutcomes(t) :
    /\ records' = storeAfterLoad(o)
    /\ loading' = FALSE
    /\ IF t.found # NULL
       THEN selectedRecord' =
                [selectedRecord EXCEPT !.comments =
                    SelectSeq(@, LAMBDA c : c.id # t.cid)]
       ELSE UNCHANGED selectedRecord
    /\ showCommentDeleteModal' = FALSE
    /\ commentToDelete' = NULL
    /\ commentPassword' = ""
    /\ tasks' = retire(t)
    /\ last' = heard(Event("deleteComment", t.pc, loadAlerts(o) \o <<"comment deleted">>, t.cid),
                     o.response)
    /\ UNCHANGED <<dbVars, env, currentView, sortOrder, showModal,
                   showEditModal, showDeleteModal, deleteTarget, editTarget,
                   adminPassword, editPassword, newComment, formVars, readers,
                   stamps, submitted>>

-----------------------------------------------------------------------------
(* Inputs of the behaviours explored: what the user types.                 *)

fillCreate ==
    << <<"name", "Soup Kitchen">>, <<"organization", "City Shelter">>,
       <<"hours", "3">>, <<"author_name", "Ana">>, <<"author_password", "x1">> >>

\* the create form filled in, with various hours
CreateTyping ==
    {fillCreate, fillCreate \o << <<"hours", "-2">> >>,
     fillCreate \o << <<"hours", "0">> >>}

\* ... and filled in but for one required field
CreateGaps ==
    {SelectSeq(fillCreate, LAMBDA e : e[1] # f) :
        f \in {"name", "organization", "hours", "author_name", "author_password"}}
    \cup {fillCreate \o << <<"date", "">> >>}

\* the edit form with the hours changed or cleared
EditTyping == {<< <<"hours", "5">> >>, << <<"hours", "">> >>}

\* ... and with one required field cleared
EditGaps == {<< <<f, "">> >> : f \in {"date", "name", "organization", "hours"}}

CommentTyping ==
    { << <<"nickname", "Bo">>, <<"password", "y2">>,
         <<"content", "Great work">> >> }

EditPasswords == {"x1", "wrong"}
AdminPasswords == {"admin", "wrong"}
CommentPasswords == {"y2", "wrong"}

-----------------------------------------------------------------------------
(* Next-state relations.                                                   *)

\* requests settling, per handler
Loads == loadRecords_selectRecords \/ mount_done
Creates == addRecord_insert \/ addRecord_done
Updates == updateRecord_update \/ updateRecord_done
Deletes ==
    deleteRecord_deleteComments \/ deleteRecord_deleteRecord \/ deleteRecord_done
CommentAdds == addComment_insert \/ addComment_done
CommentDeletes == deleteComment_delete \/ deleteComment_done
Settle == Loads \/ Creates \/ Updates \/ Deletes \/ CommentAdds \/ CommentDeletes

Navigate ==
    \/ \E i \in 1..Len(records) : selectRecord(i)
    \/ goBack

CreateDialog(typing) ==
    \/ openModal
    \/ closeModal
    \/ \E e \in typing : showModal /\ handleInputChange(e)
    \/ addRecord

EditDialog(typing) ==
    \/ openEditModal
    \/ closeEditModal
    \/ \E e \in typing : showEditModal /\ handleInputChange(e)
    \/ \E v \in EditPasswords : typeEditPassword(v)
    \/ updateRecord

DeleteDialog ==
    \/ openDeleteModal
    \/ closeDeleteModal
    \/ \E v \in AdminPasswords : typeAdminPassword(v)
    \/ deleteRecord

CommentBox ==
    \/ \E e \in CommentTyping : handleCommentChange(e)
    \/ addComment

CommentDialog ==
    \/ \E i \in 1..(IF selectedRecord = NULL THEN 0 ELSE Len(selectedRecord.comments)) :
          openCommentDeleteModal(i)
    \/ closeCommentDeleteModal
    \/ \E v \in CommentPasswords : typeCommentPassword(v)
    \/ deleteComment

\* batches of files the user picks: one file, nine, twelve (the conversions
\* of a batch yield equal data URLs, so their order leaves no trace)
batch(n, name) == [i \in 1..n |-> name]
UploadBatches == {batch(1, "a.png"), batch(9, "a.png"), batch(12, "a.png")}

PhotoStaging ==
    \/ \E b \in UploadBatches : handlePhotoUpload(b)
    \/ reader_onload
    \/ \E i \in 1..Len(selectedPhotos) : removePhoto(i)

InitAsync ==
    /\ tasks = SetToBag({mountTask})
    /\ readers = EmptyBag
    /\ stamps = <<>>
    /\ submitted = 0
    /\ last = quiet

\* The whole application, opened on any of the stores.
Init ==
    /\ InitWith({emptyStore, oneRecordStore, commentedStore, twoRecordStore},
                {configured("admin"), configured(UndefinedStr)})
    /\ InitAsync

Next ==
    \/ Settle \/ Navigate
    \/ CreateDialog(CreateTyping \cup CreateGaps)
    \/ EditDialog(EditTyping \cup EditGaps)
    \/ DeleteDialog \/ CommentBox \/ CommentDialog \/ PhotoStaging

Spec == Init /\ [][Next]_vars

\* Creating records: the list view and the create dialog.
InitCreate ==
    InitWith({emptyStore, twoRecordStore}, {configured("admin")}) /\ InitAsync
NextCreate == Loads \/ Creates \/ CreateDialog(CreateTyping)
SpecCreate == InitCreate /\ [][NextCreate]_vars

\* Editing records: the list and detail views and the edit dialog.
InitEdit == InitWith({oneRecordStore}, {configured("admin")}) /\ InitAsync
NextEdit == Loads \/ Updates \/ Navigate \/ EditDialog(EditTyping)
SpecEdit == InitEdit /\ [][NextEdit]_vars

\* Both record dialogs and every way of leaving a required field empty,
\* operated with the pointer by a user who lets each request settle: an open
\* dialog covers the page (fixed inset-0), so the controls under it are out
\* of reach.
noDialog == ~(showModal \/ showEditModal \/ showDeleteModal \/ showCommentDeleteModal)
idle == tasks = EmptyBag
InitForms == InitWith({oneRecordStore}, {configured("admin")}) /\ InitAsync
NextForms ==
    \/ Loads \/ Creates \/ Updates
    \/ idle /\ noDialog /\ Navigate
    \/ idle /\ ~showEditModal /\ CreateDialog(CreateTyping \cup CreateGaps)
    \/ idle /\ ~showModal /\ EditDialog(EditTyping \cup EditGaps)
SpecForms == InitForms /\ [][NextForms]_vars

\* Commenting: the detail view, its comment box and the comment dialog.
InitComments ==
    InitWith({oneRecordStore, commentedStore}, {configured("admin")}) /\ InitAsync
NextComments ==
    Loads \/ CommentAdds \/ CommentDeletes \/ Navigate \/ CommentBox \/ CommentDialog
SpecComments == InitComments /\ [][NextComments]_vars

\* Admin delete: the detail view, its comment box and the admin dialog.
InitDelete ==
    /\ InitWith({commentedStore}, {configured("admin"), configured(UndefinedStr)})
    /\ InitAsync
NextDelete ==
    Loads \/ CommentAdds \/ Deletes \/ Navigate \/ CommentBox \/ DeleteDialog
SpecDelete == InitDelete /\ [][NextDelete]_vars

\* Staging photos in the create dialog.
InitPhotos == InitWith({emptyStore}, {configured("admin")}) /\ InitAsync
NextPhotos == Loads \/ openModal \/ closeModal \/ PhotoStaging
SpecPhotos == InitPhotos /\ [][NextPhotos]_vars

\* Moving between the list and the detail view, editing and deleting.
InitViews == InitWith({oneRecordStore}, {configured("admin")}) /\ InitAsync
NextViews ==
    \/ Loads \/ Updates \/ Deletes \/ Navigate
    \/ EditDialog({<< <<"hours", "5">> >>}) \/ DeleteDialog
SpecViews == InitViews /\ [][NextViews]_vars

\* Editing one of two records that have comments: rewriting every text field.
rewriteAll ==
    << <<"date", "2024-02-29">>, <<"name", "Food Bank">>,
       <<"organization", "Harbor Aid">>, <<"hours", "5">>,
       <<"location", "Dock 4">>, <<"participants", "Ana, Bo">>,
       <<"description", "Sorting">> >>
InitRewrite == InitWith({twoRecordStore}, {configured("admin")}) /\ InitAsync
NextRewrite == Loads \/ Updates \/ Navigate \/ EditDialog({rewriteAll})
SpecRewrite == InitRewrite /\ [][NextRewrite]_vars

\* Creating records over a gateway none of whose requests fails.
GatewayFailures ==
    {"load failed", "add failed", "update failed", "delete failed",
     "comment add failed", "comment delete failed"}
allSettledOk == Range(last'.alerts) \cap GatewayFailures = {}
InitReliable == InitWith({emptyStore, twoRecordStore}, {configured("admin")}) /\ InitAsync
NextReliable ==
    \/ loadRecords_selectRecords
    \/ mount_done /\ allSettledOk
    \/ addRecord_insert /\ allSettledOk
    \/ addRecord_done /\ allSettledOk
    \/ CreateDialog(CreateTyping)
SpecReliable == InitReliable /\ [][NextReliable]_vars

\* One detail session: a record is opened and commented on, over a gateway
\* none of whose requests fails; the user does not go back to the list.
InitSession ==
    /\ InitWith({oneRecordStore, commentedStore, twoRecordStore}, {configured("admin")})
    /\ InitAsync
NextSession ==
    \/ loadRecords_selectRecords
    \/ mount_done /\ allSettledOk
    \/ addComment_insert /\ allSettledOk
    \/ addComment_done /\ allSettledOk
    \/ \E i \in 1..Len(records) : selectRecord(i)
    \/ CommentBox
SpecSession == InitSession /\ [][NextSession]_vars

\* Commenting with padded and blank inputs: the comment box filled in with
\* surrounding whitespace, then one field at a time overwritten by a blank.
PaddedTyping ==
    { << <<"nickname", " Bo ">>, <<"password", " y2 ">>,
         <<"content", "Great work">> >> }
BlankTyping == {<< <<f, " ">> >> : f \in {"nickname", "password", "content"}}
PaddedPasswords == {" y2 ", "y2"}
InitTrim == InitWith({oneRecordStore}, {configured("admin")}) /\ InitAsync
NextTrim ==
    \/ Loads \/ CommentAdds \/ CommentDeletes
    \/ \E i \in 1..Len(records) : selectRecord(i)
    \/ \E e \in PaddedTyping \cup BlankTyping : handleCommentChange(e)
    \/ addComment
    \/ \E i \in 1..(IF selectedRecord = NULL THEN 0 ELSE Len(selectedRecord.comments)) :
          openCommentDeleteModal(i)
    \/ closeCommentDeleteModal
    \/ \E v \in PaddedPasswords : typeCommentPassword(v)
    \/ deleteComment
SpecTrim == InitTrim /\ [][NextTrim]_vars

\* Opening the page and creating a record, in a configured deployment and in
\* misconfigured ones.
InitSetup ==
    /\ InitWith({emptyStore, oneRecordStore}, {configured("admin")} \cup Misconfigurations)
    /\ InitAsync
NextSetup == Loads \/ Creates \/ CreateDialog({fillCreate})
SpecSetup == InitSetup /\ [][NextSetup]_vars

\* The list of three records with any activity dates, sorted either way.
ActivityDates == {"2024-01-15", "2024-02-01", "2024-02-29"}
datedStores ==
    {[records |-> <<seedRecord(1, d1), seedRecord(2, d2), seedRecord(3, d3)>>,
      comments |-> <<seedComment(1, 2)>>] : d1, d2, d3 \in ActivityDates}
InitSort == InitWith(datedStores, {configured("admin")}) /\ InitAsync
NextSort ==
    \/ Loads
    \/ \E v \in {"newest", "oldest"} : setSortOrder(v)
    \/ Navigate
SpecSort == InitSort /\ [][NextSort]_vars

\* Select, insert, update and delete, each called by a handler, operated
\* with the pointer (one dialog at a time) by a user who lets each request
\* settle before the next click.
InitGateway == InitWith({commentedStore}, {configured("admin")}) /\ InitAsync
NextGateway ==
    \/ Loads \/ Creates \/ Updates \/ Deletes
    \/ idle /\ noDialog /\ Navigate
    \/ idle /\ ~(showEditModal \/ showDeleteModal) /\ CreateDialog({fillCreate})
    \/ idle /\ ~(showModal \/ showDeleteModal) /\ EditDialog({<< <<"hours", "5">> >>})
    \/ idle /\ ~(showModal \/ showEditModal) /\ DeleteDialog
SpecGateway == InitGateway /\ [][NextGateway]_vars

\* The five mutating actions, operated with the pointer (one dialog at a
\* time) by a user who does not wait for requests to settle and leaves a
\* dialog only by submitting it.
InitActions == InitWith({commentedStore}, {configured("admin")}) /\ InitAsync
NextActions ==
    \/ Settle
    \/ noDialog /\ (\E i \in 1..Len(records) : selectRecord(i))
    \/ noDialog /\ openModal
    \/ showModal /\ handleInputChange(fillCreate)
    \/ addRecord
    \/ noDialog /\ openEditModal
    \/ showEditModal /\ handleInputChange(<< <<"hours", "5">> >>)
    \/ typeEditPassword("x1")
    \/ updateRecord
    \/ noDialog /\ openDeleteModal
    \/ typeAdminPassword("admin")
    \/ deleteRecord
    \/ noDialog /\ CommentBox
    \/ noDialog /\ (\E i \in 1..(IF selectedRecord = NULL THEN 0
                                   ELSE Len(selectedRecord.comments)) :
                       openCommentDeleteModal(i))
    \/ typeCommentPassword("y2")
    \/ deleteComment
SpecActions == InitActions /\ [][NextActions]_vars

\* Editing without changing a field: records with and without the optional
\* fields and photos, with hours zero and positive, are opened in the edit
\* dialog and submitted as they are.
filledRecord(id, date, hours) ==
    [seedRecord(id, date) EXCEPT
        !.hours = hours, !.location = "Dock 4", !.participants = "Ana, Bo",
        !.description = "Sorting",
        !.photos = <<readAsDataURL("a.png"), readAsDataURL("b.png")>>]
plainAndFilledStores ==
    {[records |-> <<seedRecord(1, "2024-02-01"), filledRecord(2, "2024-01-15", h)>>,
      comments |-> <<seedComment(1, 2)>>] : h \in {0, 5}}
InitRoundTrip == InitWith(plainAndFilledStores, {configured("admin")}) /\ InitAsync
NextRoundTrip ==
    \/ Loads \/ Updates \/ Navigate
    \/ openEditModal
    \/ closeEditModal
    \/ \E v \in EditPasswords : typeEditPassword(v)
    \/ updateRecord
SpecRoundTrip == InitRoundTrip /\ [][NextRoundTrip]_vars

\* The three password dialogs of the detail view, operated with the pointer
\* (an open dialog covers the page, so one dialog at a time): opened, typed
\* into with the right and a wrong password, cancelled and submitted, by a
\* user who does not wait for requests to settle.
InitDialogs == InitWith({commentedStore}, {configured("admin")}) /\ InitAsync
NextDialogs ==
    \/ Loads \/ Updates \/ Deletes \/ CommentDeletes
    \/ noDialog /\ Navigate
    \/ noDialog /\ openEditModal
    \/ closeEditModal
    \/ \E v \in EditPasswords : typeEditPassword(v)
    \/ updateRecord
    \/ noDialog /\ openDeleteModal
    \/ closeDeleteModal
    \/ \E v \in AdminPasswords : typeAdminPassword(v)
    \/ deleteRecord
    \/ noDialog /\ (\E i \in 1..(IF selectedRecord = NULL THEN 0
                                   ELSE Len(selectedRecord.comments)) :
                       openCommentDeleteModal(i))
    \/ closeCommentDeleteModal
    \/ \E v \in CommentPasswords : typeCommentPassword(v)
    \/ deleteComment
SpecDialogs == InitDialogs /\ [][NextDialogs]_vars

\* Opening the page and creating records, in a configured deployment and in
\* misconfigured ones, over a gateway that answers every select of a reload
\* sooner or later (the requests of a mutation may stay unanswered).
Reloading == loadRecords_selectRecords \/ mount_done \/ addRecord_done
InitLoading ==
    /\ InitWith({emptyStore, oneRecordStore}, {configured("admin")} \cup Misconfigurations)
    /\ InitAsync
NextLoading == Loads \/ Creates \/ CreateDialog({fillCreate})
SpecLoading == InitLoading /\ [][NextLoading]_vars /\ WF_vars(Reloading)

-----------------------------------------------------------------------------
(* Properties.                                                             *)

\* a handler's last step: task t has left the bag
ends(t) == tasks' = retire(t)

reloadFailed(alerts) == "load failed" \in Range(alerts)

\* recs is the fetched records, in the fetched order, each with exactly its
\* own fetched comments in the fetched order
isJoinOf(recs, recordsData, commentsData) ==
    /\ Len(recs) = Len(recordsData)
    /\ \A i \in DOMAIN recs :
          /\ DOMAIN recs[i] = DOMAIN recordsData[i] \cup {"comments"}
          /\ \A f \in DOMAIN recordsData[i] : recs[i][f] = recordsData[i][f]
          /\ Range(recs[i].comments) =
                {c \in Range(commentsData) : c.record_id = recs[i].id}
          /\ Len(recs[i].comments) =
                Cardinality({k \in DOMAIN commentsData :
                                commentsData[k].record_id = recs[i].id})
          /\ \A k, l \in DOMAIN recs[i].comments :
                k < l => recs[i].comments[k].created_at
                            <= recs[i].comments[l].created_at
    /\ \A i, j \in DOMAIN recs :
          i < j => /\ recs[i].id # recs[j].id
                   /\ recs[i].created_at >= recs[j].created_at

\* C1: whenever a reload ends successfully, the in-memory store is the fetched
\* records, each once and in the fetched newest-first order, and each record
\* carries exactly the fetched comments whose record_id is its id, in the
\* fetched oldest-first order.
C1_ReloadJoinsComments ==
    [][\A t \in BagToSet(tasks) :
          (t.pc = "selComments" /\ ends(t) /\ ~reloadFailed(last'.alerts))
          => isJoinOf(records', t.recordsData, selectComments)]_vars

\* a create has been reloaded into a store of three records, of which one
\* has two comments and another one
C1_Witness ==
    /\ last.op = "addRecord" /\ last.alerts = <<"record added">>
    /\ Len(records) = 3
    /\ \E i, j \in DOMAIN records :
          Len(records[i].comments) = 2 /\ Len(records[j].comments) = 1

\* the row of table comments behind an entry of the detail view's comment
\* list: an entry appended by addComment carries the k-th reading of Date.now()
\* and stands for the row the k-th such insert created
rowOf(id) == IF id >= DateNowBase THEN stamps[id - DateNowBase + 1] ELSE id

attached(commentId, recs) ==
    \E i \in DOMAIN recs : commentId \in idsOf(recs[i].comments)

\* C2: when a delete-comment that passed its password gate ends with a
\* successful reload, the comment it was submitted for (one loaded from the
\* store or one added earlier in the same detail session) is no longer a row
\* of the backing store and is attached to no record of the in-memory store.
C2_DeleteCommentRemovesIt ==
    [][\A t \in awaitingLoad("deleteComment") :
          (ends(t) /\ ~reloadFailed(last'.alerts))
          => /\ rowOf(t.cid) \notin idsOf(dbComments')
             /\ ~attached(rowOf(t.cid), records')]_vars

\* has(id): record id is in the backing store, or in the in-memory store, or
\* some comment of the backing store refers to it
has(id, recs, dbRecs, dbComs) ==
    \/ id \in idsOf(dbRecs)
    \/ id \in idsOf(recs)
    \/ \E k \in DOMAIN dbComs : dbComs[k].record_id = id

\* C3: once an admin delete of record R has announced success and its reload
\* has succeeded, R is in neither store and no stored comment refers to it,
\* and that remains so whatever the requests still in flight do.
C3_DeleteCascades ==
    [][/\ \A t \in awaitingLoad("deleteRecord") :
             (ends(t) /\ ~reloadFailed(last'.alerts))
             => ~has(t.rid, records', dbRecords', dbComments')
       /\ \A id \in 1..recSerial :
             ~has(id, records, dbRecords, dbComments)
             => ~has(id, records', dbRecords', dbComments')]_vars

\* the step is handler op run from the click to its return
clicked(op) == last'.op = op /\ last'.at = "click"

\* C4: an edit submitted with a password other than the target record's
\* author_password sends no request, changes neither store, leaves the edit
\* dialog open and ends with the wrong-password alert.
C4_WrongEditPassword ==
    [][(/\ clicked("updateRecord") /\ editTarget # NULL
        /\ editPassword # editTarget.author_password)
       => /\ UNCHANGED <<dbVars, records, tasks, submitted>>
          /\ showEditModal /\ showEditModal'
          /\ last'.alerts = <<"wrong password">>]_vars

\* a wrong password has been rejected over a draft that differs from the record
C4_Witness ==
    /\ last.op = "updateRecord" /\ last.alerts = <<"wrong password">>
    /\ editPassword = "wrong" /\ formData.hours = "5"
    /\ showEditModal /\ records # <<>>

\* C5: an admin delete submitted with a password other than the admin secret,
\* a secret that is not configured included, sends no request, changes neither
\* store nor the view, and leaves the admin dialog open.
C5_WrongAdminPassword ==
    [][(clicked("deleteRecord") /\ adminPassword # env.ADMIN_PASSWORD)
       => /\ UNCHANGED <<dbVars, records, currentView, selectedRecord, tasks,
                         submitted>>
          /\ showDeleteModal /\ showDeleteModal']_vars

\* without a configured secret, an empty password has been rejected
C5_Witness ==
    /\ last.op = "deleteRecord" /\ last.alerts = <<"wrong admin password">>
    /\ env.ADMIN_PASSWORD = UndefinedStr /\ adminPassword = ""
    /\ showDeleteModal /\ currentView = "detail"

\* C6: a delete-comment submitted with a password other than the target
\* comment's sends no request, leaves the backing store and the selected
\* record's comment list as they were, and leaves the comment dialog open.
C6_WrongCommentPassword ==
    [][(/\ clicked("deleteComment") /\ commentToDelete # NULL
        /\ commentPassword # commentToDelete.password)
       => /\ UNCHANGED <<dbVars, selectedRecord, tasks, submitted>>
          /\ showCommentDeleteModal /\ showCommentDeleteModal']_vars

\* a wrong password has been rejected for a comment that is stored and listed
C6_Witness ==
    /\ last.op = "deleteComment" /\ last.alerts = <<"wrong password">>
    /\ commentPassword = "wrong" /\ showCommentDeleteModal
    /\ commentToDelete # NULL /\ selectedRecord # NULL
    /\ commentToDelete.id \in idsOf(dbComments)
    /\ commentToDelete.id \in idsOf(selectedRecord.comments)

\* C7: when a create whose six required fields were filled in ends with its
\* insert and its reload both successful, the in-memory store holds the new
\* record exactly once, with hours the number parseFloat reads from the hours
\* typed, and holds every record the backing store had before the insert.
C7_CreateAddsRecordOnce ==
    [][\A t \in awaitingLoad("addRecord") :
          (createValid(t.form) /\ ends(t) /\ ~reloadFailed(last'.alerts))
          => /\ Cardinality({i \in DOMAIN records' : records'[i].id = t.rid}) = 1
             /\ \A i \in DOMAIN records' :
                   records'[i].id = t.rid
                   => /\ records'[i].hours = parseFloat(t.form.hours)
                      /\ records'[i].name = t.form.name
             /\ \A k \in DOMAIN dbRecords :
                   dbRecords[k].id < t.rid => dbRecords[k].id \in idsOf(records')]_vars

\* a create with hours "-2" has been reloaded next to the two earlier records
C7_Witness ==
    /\ last.op = "addRecord" /\ last.alerts = <<"record added">>
    /\ Len(records) = 3
    /\ \E i \in DOMAIN records :
          records[i].id = last.id /\ records[i].hours = 0 - 2
    /\ {1, 2} \subseteq idsOf(records)

CreateRequired ==
    {"date", "name", "organization", "hours", "author_name", "author_password"}
UpdateRequired == {"date", "name", "organization", "hours"}

\* C8: a create submitted with one of its six required fields empty, and an
\* edit submitted with the right password and one of its four required fields
\* empty, sends no request and leaves the stores, the draft, the staged photos
\* and the dialogs as they were.
C8_ValidationBeforeNetwork ==
    [][(\/ /\ clicked("addRecord")
           /\ \E f \in CreateRequired : formData[f] = ""
        \/ /\ clicked("updateRecord") /\ editTarget # NULL
           /\ editPassword = editTarget.author_password
           /\ \E f \in UpdateRequired : formData[f] = "")
       => UNCHANGED <<dbVars, records, formVars, showModal, showEditModal,
                      tasks, submitted>>]_vars

\* a create filled in but for the author password has been rejected
C8_Witness ==
    /\ last.op = "addRecord" /\ last.alerts = <<"required fields">>
    /\ showModal /\ formData.author_password = ""
    /\ \A f \in CreateRequired \ {"author_password"} : formData[f] # ""

\* C9: when a reload ends because its records fetch or its comments fetch
\* failed, the in-memory store is what it was before.
C9_FailedReloadKeepsStore ==
    [][\A t \in BagToSet(tasks) :
          (/\ t.pc \in {"selRecords", "selComments"} /\ ends(t)
           /\ reloadFailed(last'.alerts))
          => records' = records]_vars

\* the comments fetch failed after a comment was added to a loaded record
\* whose stored comments the in-memory store still shows
C9_Witness ==
    /\ last.op = "addComment" /\ last.at = "selComments"
    /\ reloadFailed(last.alerts)
    /\ Len(records) = 1 /\ Len(records[1].comments) = 1
    /\ Len(dbComments) = 2

SuccessAlerts ==
    {"record added", "record updated", "record deleted", "comment added",
     "comment deleted"}

\* C10: when the reload after a successful mutation fails, the handler that
\* awaited it takes none of its success steps: the dialog, the draft, the
\* view and the selected record stay as they were and no success is announced.
C10_ReloadFailureSurfaced ==
    [][\A t \in BagToSet(tasks) :
          (/\ t.kind # "mount" /\ t.pc \in {"selRecords", "selComments"}
           /\ ends(t) /\ reloadFailed(last'.alerts))
          => /\ Range(last'.alerts) \cap SuccessAlerts = {}
             /\ UNCHANGED <<modalVars, formVars, currentView, selectedRecord,
                            newComment>>]_vars

\* C11: when no request is in flight and every request has settled
\* successfully, the in-memory store is the join of the records and comments
\* the backing store holds now.
C11_EventuallyConsistent ==
    tasks = EmptyBag => isJoinOf(records, selectRecords, selectComments)

\* C12: the staged photo list never holds more than ten photos, and no
\* stored record carries more than ten.
C12_PhotoCap ==
    /\ Len(selectedPhotos) <= MaxPhotos
    /\ \A k \in DOMAIN dbRecords : Len(dbRecords[k].photos) <= MaxPhotos

min(a, b) == IF a < b THEN a ELSE b

\* C13: a batch of n files chosen while k <= 10 photos are staged and no
\* conversion is pending starts exactly min(n, 10 - k) conversions and, when
\* n > 10 - k, reports 10 - k accepted; each conversion that completes appends
\* exactly one photo, so that the list has grown by min(n, 10 - k) once all
\* have completed, in whatever order.
C13_UploadFillsCapacity ==
    [][/\ \A b \in UploadBatches :
             (/\ readers = EmptyBag /\ Len(selectedPhotos) <= MaxPhotos
              /\ handlePhotoUpload(b))
             => LET free == MaxPhotos - Len(selectedPhotos)
                IN  /\ BagCardinality(readers') = min(Len(b), free)
                    /\ selectedPhotos' = selectedPhotos
                    /\ IF Len(b) > free
                       THEN last'.alerts = <<"photo limit">> /\ last'.id = free
                       ELSE last'.alerts = <<>>
       /\ BagCardinality(readers') < BagCardinality(readers)
             => /\ BagCardinality(readers') = BagCardinality(readers) - 1
                /\ Len(selectedPhotos') = Len(selectedPhotos) + 1
                /\ SubSeq(selectedPhotos', 1, Len(selectedPhotos)) = selectedPhotos]_vars

\* twelve files were chosen while one photo was staged: nine are being converted
C13_Witness ==
    /\ last.op = "handlePhotoUpload" /\ last.alerts = <<"photo limit">>
    /\ last.id = 9
    /\ Len(selectedPhotos) = 1 /\ BagCardinality(readers) = 9

announced(alert) == alert \in Range(last'.alerts)

\* C14: the first view is the list; in the detail view a record is always
\* selected; the list is left only by selecting one of its records, which
\* becomes the selected record; the detail view is left only by the back
\* arrow, by an edit that succeeded or by an admin delete that succeeded.
C14_ViewStates ==
    /\ currentView = "main"
    /\ [](currentView = "detail" => selectedRecord # NULL)
    /\ [][/\ (currentView = "main" /\ currentView' = "detail")
             => /\ \E i \in DOMAIN records : selectedRecord' = records[i]
                /\ UNCHANGED <<dbVars, records, tasks>>
          /\ (currentView = "detail" /\ currentView' = "main")
             => \/ goBack
                \/ /\ last'.op = "updateRecord" /\ announced("record updated")
                   /\ dbRecords' = dbRecords
                \/ /\ last'.op = "deleteRecord" /\ announced("record deleted")
                   /\ last'.id \notin idsOf(dbRecords')]_vars

\* a record was opened from the list and an edit of it has led back there
C14_Witness ==
    /\ currentView = "main" /\ selectedRecord # NULL
    /\ last.op = "updateRecord" /\ last.alerts = <<"record updated">>
    /\ last.id = selectedRecord.id

\* C15: when an admin delete of the selected record ends in success, the view
\* is the list and the selected record is no longer the deleted one.
C15_DeleteClearsSelection ==
    [][\A t \in awaitingLoad("deleteRecord") :
          (/\ ends(t) /\ announced("record deleted")
           /\ selectedRecord # NULL /\ selectedRecord.id = t.rid)
          => /\ currentView' = "main"
             /\ selectedRecord' = NULL \/ selectedRecord'.id # t.rid]_vars

\* C16: whenever the edit, admin or comment dialog closes, by cancel or by
\* success, its password input is empty afterwards.
C16_CredentialsCleared ==
    [][/\ (showEditModal /\ ~showEditModal') => editPassword' = ""
       /\ (showDeleteModal /\ ~showDeleteModal') => adminPassword' = ""
       /\ (showCommentDeleteModal /\ ~showCommentDeleteModal')
             => commentPassword' = ""]_vars

Editable ==
    {"date", "name", "organization", "hours", "location", "participants",
     "description", "photos"}

\* C17: the update of a successful edit of record R changes, in the backing
\* store, nothing but the eight editable columns of R; when the edit ends the
\* edit dialog is closed and the view is the list.
C17_EditFrame ==
    [][/\ \A t \in awaiting("updateRecord", "update") :
             tasks' = become(t, enterLoad(t))
             => /\ dbComments' = dbComments
                /\ DOMAIN dbRecords' = DOMAIN dbRecords
                /\ \A i \in DOMAIN dbRecords :
                      /\ DOMAIN dbRecords'[i] = DOMAIN dbRecords[i]
                      /\ \A f \in DOMAIN dbRecords[i] :
                            (dbRecords[i].id # t.rid \/ f \notin Editable)
                            => dbRecords'[i][f] = dbRecords[i][f]
       /\ \A t \in awaitingLoad("updateRecord") :
             ends(t) => /\ dbRecords' = dbRecords /\ dbComments' = dbComments
                        /\ ~showEditModal' /\ currentView' = "main"]_vars

\* record 2 has been rewritten; it kept its author and its password, and
\* record 1 and the three comments are as they were
C17_Witness ==
    /\ last.op = "updateRecord" /\ last.alerts = <<"record updated">>
    /\ last.id = 2
    /\ \E i \in DOMAIN dbRecords :
          /\ dbRecords[i].id = 2 /\ dbRecords[i].name = "Food Bank"
          /\ dbRecords[i].hours = 5 /\ dbRecords[i].author_password = "x1"
          /\ dbRecords[i].author_name = "Ana"
    /\ seedRecord(1, "2024-02-01") \in Range(dbRecords)
    /\ Len(dbComments) = 3
    /\ ~showEditModal /\ currentView = "main"

refersTo(id, coms) == \E k \in DOMAIN coms : coms[k].record_id = id

\* C18: in an admin delete, the request that deletes the record is issued only
\* at the step at which the request deleting the record's comments resolves
\* successfully (never at the click, never after a failure), and a record is
\* deleted from the backing store only by a request so issued.
C18_CommentsBeforeRecord ==
    [][/\ \A t \in {u \in BagToSet(tasks') :
                       u.kind = "deleteRecord" /\ u.pc = "deleteRecord"} :
             CopiesIn(t, tasks') > CopiesIn(t, tasks)
             => /\ \E u \in awaiting("deleteRecord", "deleteComments") :
                      u.rid = t.rid /\ tasks' = become(u, t)
                /\ ~refersTo(t.rid, dbComments')
                /\ ~announced("delete failed")
                /\ dbRecords' = dbRecords
       /\ \A id \in idsOf(dbRecords) \ idsOf(dbRecords') :
             \E t \in awaiting("deleteRecord", "deleteRecord") :
                t.rid = id /\ CopiesIn(t, tasks') < CopiesIn(t, tasks)]_vars

\* the comments of record 1 are deleted and the request for the record itself
\* is in flight
C18_Witness ==
    /\ \E t \in awaiting("deleteRecord", "deleteRecord") : t.rid = 1
    /\ 1 \in idsOf(dbRecords) /\ ~refersTo(1, dbComments)
    /\ comSerial >= 1

\* how many entries of the comment list coms stand for row id of table comments
listed(id, coms) == Cardinality({i \in DOMAIN coms : rowOf(coms[i].id) = id})

\* C19: in a detail session, once the add-comment actions submitted so far
\* have all succeeded, the selected record's comment list holds every comment
\* stored for that record, the earlier ones and each added one, exactly once.
C19_AddedCommentsListed ==
    (selectedRecord # NULL /\ awaiting("addComment", "insert") = {}
     /\ awaitingLoad("addComment") = {})
    => \A k \in DOMAIN dbComments :
          dbComments[k].record_id = selectedRecord.id
          => listed(dbComments[k].id, selectedRecord.comments) = 1

\* C20: when a reload ends successfully while a record is selected, the
\* selected record's comment list is the refreshed store's list for that
\* record, server-assigned identifiers included.
C20_SelectionReconciled ==
    [][\A t \in BagToSet(tasks) :
          (/\ t.pc = "selComments" /\ ends(t) /\ ~reloadFailed(last'.alerts)
           /\ selectedRecord' # NULL)
          => \A i \in DOMAIN records' :
                records'[i].id = selectedRecord'.id
                => selectedRecord'.comments = records'[i].comments]_vars

\* the task a handler invoked by this step has put in the bag
invoked(t) == CopiesIn(t, tasks') > CopiesIn(t, tasks)

\* C21: add-comment sends no insert when the nickname, the password or the
\* content is empty once trimmed; otherwise the inserted row has the selected
\* record's id as record_id, the trimmed nickname and content, and the password
\* exactly as entered; and a delete-comment given the stored password of the
\* comment it is about passes the password gate.
C21_CommentTrimmed ==
    [][/\ (/\ clicked("addComment")
           /\ \E f \in {"nickname", "password", "content"} : trim(newComment[f]) = "")
          => /\ UNCHANGED <<dbVars, tasks, submitted>>
             /\ last'.alerts = <<"comment fields required">>
       /\ (/\ clicked("addComment")
           /\ \A f \in {"nickname", "password", "content"} : trim(newComment[f]) # "")
          => \E t \in awaiting("addComment", "insert")' :
                /\ invoked(t)
                /\ t.data.record_id = selectedRecord.id
                /\ t.data.nickname = trim(newComment.nickname)
                /\ t.data.content = trim(newComment.content)
                /\ t.data.password = newComment.password
       /\ \A t \in awaiting("addComment", "insert") :
             CopiesIn(t, tasks') < CopiesIn(t, tasks) /\ dbComments' # dbComments
             => /\ Len(dbComments') = Len(dbComments) + 1
                /\ SubSeq(dbComments', 1, Len(dbComments)) = dbComments
                /\ \A f \in {"record_id", "nickname", "password", "content"} :
                      dbComments'[Len(dbComments')][f] = t.data[f]
       /\ (/\ clicked("deleteComment") /\ commentToDelete # NULL
           /\ \E k \in DOMAIN dbComments :
                 /\ dbComments[k].id = rowOf(commentToDelete.id)
                 /\ dbComments[k].password = commentPassword)
          => /\ last'.alerts = <<>>
             /\ \E t \in awaiting("deleteComment", "delete")' : invoked(t)]_vars

\* a comment entered as " Bo " / " y2 " is stored as "Bo" / " y2 ", and a
\* delete-comment given " y2 " has passed the gate
C21_Witness ==
    /\ last.op = "deleteComment" /\ last.at = "click" /\ last.alerts = <<>>
    /\ commentPassword = " y2 " /\ commentToDelete # NULL
    /\ \E k \in DOMAIN dbComments :
          /\ dbComments[k].id = rowOf(commentToDelete.id)
          /\ dbComments[k].nickname = "Bo" /\ dbComments[k].password = " y2 "
          /\ dbComments[k].record_id = 1

\* the endpoint or the key is missing or is the setup page's placeholder
unconfigured ==
    \/ env.SUPABASE_URL \in {UndefinedStr, "YOUR_SUPABASE_URL"}
    \/ env.SUPABASE_ANON_KEY \in {UndefinedStr, "YOUR_SUPABASE_ANON_KEY"}

\* C22: when the endpoint or the key is missing or a placeholder, the
\* application shows the setup-required screen and no request to the store is
\* in flight at any time, the reload of the first render included.
C22_SetupIssuesNoRequest ==
    unconfigured => setupRequired /\ tasks = EmptyBag

\* how often row r occurs in s
occurrences(r, s) == Cardinality({i \in DOMAIN s : s[i] = r})

isPermutation(view, recs) ==
    /\ Len(view) = Len(recs)
    /\ \A r \in Range(recs) \cup Range(view) :
          occurrences(r, view) = occurrences(r, recs)

\* records of equal date stand in view in the order they have in recs
keepsTies(view, recs) ==
    \A i, j \in DOMAIN recs :
        (i < j /\ recs[i].date = recs[j].date)
        => \E k, l \in DOMAIN view :
              k < l /\ view[k] = recs[i] /\ view[l] = recs[j]

datesDistinct(recs) ==
    \A i, j \in DOMAIN recs : i # j => recs[i].date # recs[j].date

\* C23: the views under newest and under oldest are permutations of the
\* store, the one by descending and the other by ascending activity date;
\* they are each other's reverse when all dates are distinct; records of equal
\* date keep their store order in both; and choosing a sort order leaves the
\* store as it was.
C23_SortView ==
    /\ [](LET newest == sorted(records, "newest")
              oldest == sorted(records, "oldest")
          IN  /\ isPermutation(newest, records) /\ isPermutation(oldest, records)
              /\ \A i, j \in DOMAIN newest :
                    i < j => dateValue(newest[i].date) >= dateValue(newest[j].date)
              /\ \A i, j \in DOMAIN oldest :
                    i < j => dateValue(oldest[i].date) <= dateValue(oldest[j].date)
              /\ datesDistinct(records) => newest = reverse(oldest)
              /\ keepsTies(newest, records) /\ keepsTies(oldest, records)
              /\ getSortedRecords \in {newest, oldest})
    /\ [][sortOrder' # sortOrder => records' = records]_vars

\* oldest first has been chosen for three records of which the first and the
\* last share a date later than the second's: the view is not the store order
C23_Witness ==
    /\ sortOrder = "oldest" /\ rendered /\ Len(records) = 3
    /\ records[1].date = records[3].date
    /\ dateValue(records[2].date) < dateValue(records[1].date)
    /\ getSortedRecords = <<records[2], records[1], records[3]>>

\* with its response, the request of task t has left the network
answered(t) == CopiesIn(t, tasks') < CopiesIn(t, tasks)

C25_HoursNonNegative ==
    \A k \in DOMAIN dbRecords : dbRecords[k].hours >= 0

\* C26: whenever neither the create nor the edit dialog is open, the draft is
\* the blank draft and no photo is staged, also after conversions that were
\* started while a dialog was open have completed.
C26_DraftOnlyInDialog ==
    ~(showModal \/ showEditModal)
    => formData = initialFormData /\ selectedPhotos = <<>>

MutatingOps ==
    {"addRecord", "updateRecord", "deleteRecord", "addComment", "deleteComment"}
MutationPcs == {"insert", "update", "deleteComments", "deleteRecord", "delete"}

\* the component state a handler sets on its success path, and the store
local == <<records, viewVars, modalVars, credVars, newComment, formVars>>

\* the step resumed a handler whose awaited call had resolved successfully
resolved == last'.response # noResponse /\ ~fetch(last'.response).threw

\* C27: within a mutating action the steps follow one another: the click only
\* sends the mutation; of the two deletes of an admin delete the second is
\* sent when the first has succeeded; the reload is started exactly when the
\* action's mutation has resolved successfully, never otherwise; and the
\* dialog, the draft, the view, the selected record and the in-memory store
\* are changed by the action only in the step in which its reload settles.
C27_StepsSequential ==
    [][/\ \A op \in MutatingOps :
             clicked(op) => UNCHANGED <<local, loading, dbVars>>
       /\ \A t \in BagToSet(tasks) :
             (t.kind # "mount" /\ answered(t))
             => /\ (t.pc \in MutationPcs /\ ~resolved)
                      => ends(t) /\ UNCHANGED <<local, loading>>
                /\ (t.pc = "deleteComments" /\ resolved)
                      => /\ tasks' = become(t, [t EXCEPT !.pc = "deleteRecord"])
                         /\ UNCHANGED <<local, loading>>
                /\ (t.pc \in MutationPcs \ {"deleteComments"} /\ resolved)
                      => /\ tasks' = become(t, [t EXCEPT !.pc = "selRecords"])
                            \/ \E u \in BagToSet(tasks') :
                                  /\ u.kind = t.kind /\ u.pc = "selRecords"
                                  /\ tasks' = become(t, u)
                         /\ loading'
                         /\ UNCHANGED local
                /\ (t.pc = "selRecords" /\ ~ends(t))
                      => /\ \E u \in BagToSet(tasks') :
                               /\ u.kind = t.kind /\ u.pc = "selComments"
                               /\ tasks' = become(t, u)
                         /\ UNCHANGED local
       /\ \A u \in BagToSet(tasks') :
             (u.kind # "mount" /\ u.pc = "selRecords" /\ invoked(u))
             => /\ resolved
                /\ \E t \in BagToSet(tasks) :
                      /\ t.kind = u.kind /\ answered(t)
                      /\ t.pc \in MutationPcs \ {"deleteComments"}
       /\ (last'.response # noResponse /\ local' # local)
             => \E t \in BagToSet(tasks) :
                   t.pc \in {"selRecords", "selComments"} /\ ends(t)]_vars

\* the update of an edit has been applied and its reload is in flight: the
\* edit dialog is still open over its draft and the in-memory store is stale
C27_Witness ==
    /\ awaitingLoad("updateRecord") # {}
    /\ loading /\ showEditModal /\ formData.hours = "5"
    /\ currentView = "detail"
    /\ dbRecords[1].hours = 5 /\ records[1].hours = 3

\* C28: the edit dialog opens on the selected record with a blank password
\* field and the record's photos staged; submitted with the record's password
\* and no field changed, it sends an update of that record whose eight values
\* are the record's own, as stored, so that no edit of this kind changes the
\* backing store.
C28_EditRoundTrip ==
    [][/\ (~showEditModal /\ showEditModal')
             => /\ editTarget' = selectedRecord
                /\ formData'.author_password = ""
                /\ selectedPhotos' = selectedRecord.photos
       /\ (/\ clicked("updateRecord") /\ editTarget # NULL
           /\ editPassword = editTarget.author_password)
             => \E t \in awaiting("updateRecord", "update")' :
                   /\ invoked(t)
                   /\ t.rid = editTarget.id
                   /\ DOMAIN t.data = Editable
                   /\ \E k \in DOMAIN dbRecords :
                         /\ dbRecords[k].id = t.rid
                         /\ \A f \in Editable : t.data[f] = dbRecords[k][f]
       /\ dbRecords' = dbRecords]_vars

\* record 2, which has hours 0, every optional field and two photos, has
\* been edited as it was, and is stored as it was
C28_Witness ==
    /\ last.op = "updateRecord" /\ last.alerts = <<"record updated">>
    /\ last.id = 2
    /\ dbRecords = <<seedRecord(1, "2024-02-01"), filledRecord(2, "2024-01-15", 0)>>

\* C29: when an admin delete of record R ends on its failure path, R is in
\* the backing store and the comments the in-memory store shows for R are
\* exactly the comments the backing store holds for R.
C29_DeleteAllOrNothing ==
    [][\A t \in BagToSet(tasks) :
          (/\ t.kind = "deleteRecord" /\ ends(t) /\ announced("delete failed"))
          => /\ t.rid \in idsOf(dbRecords')
             /\ \A i \in DOMAIN records' :
                   records'[i].id = t.rid
                   => idsOf(records'[i].comments) =
                         {c.id : c \in {d \in Range(dbComments') :
                                            d.record_id = t.rid}}]_vars

\* the notice each handler gives in its catch block
failureNoticeOf(kind) ==
    CASE kind = "addRecord" -> "add failed"
      [] kind = "updateRecord" -> "update failed"
      [] kind = "deleteRecord" -> "delete failed"
      [] kind = "addComment" -> "comment add failed"
      [] kind = "deleteComment" -> "comment delete failed"

\* C30: when the insert, update or delete of an action fails, the action
\* ends there with its failure notice and without a reload, and the step
\* changes neither store, nor the view, nor any dialog with its draft, staged
\* photos, target and password, nor the comment box.
C30_MutationFailureKeepsState ==
    [][\A t \in BagToSet(tasks) :
          (t.pc \in MutationPcs /\ answered(t) /\ ~resolved)
          => /\ tasks' = retire(t)
             /\ last'.alerts = <<failureNoticeOf(t.kind)>>
             /\ UNCHANGED <<dbVars, records, loading, viewVars, modalVars,
                            credVars, newComment, formVars>>]_vars

\* the insert of a comment has failed: the comment box still holds the
\* comment, the detail view is shown and nothing was stored
C30_Witness ==
    /\ last.op = "addComment" /\ last.alerts = <<"comment add failed">>
    /\ newComment = [nickname |-> "Bo", password |-> "y2", content |-> "Great work"]
    /\ currentView = "detail" /\ ~loading
    /\ Len(dbComments) = 1 /\ tasks = EmptyBag

\* C31: in every reachable state an open dialog has its target (edit dialog:
\* editTarget, admin dialog: deleteTarget, comment dialog: commentToDelete),
\* and no submit, a second one fired while the first is in flight included,
\* reads a field of a null target.
C31_OpenDialogHasTarget ==
    /\ [](/\ showEditModal => editTarget # NULL
          /\ showDeleteModal => deleteTarget # NullId
          /\ showCommentDeleteModal => commentToDelete # NULL)
    /\ [][~announced("TypeError")]_vars

\* the edit dialog has just been submitted a second time, the first update
\* still in flight
C31_Witness ==
    /\ showEditModal /\ editTarget # NULL
    /\ last.op = "updateRecord" /\ last.at = "click" /\ last.alerts = <<>>
    /\ \E t \in BagToSet(tasks) :
          t.kind = "updateRecord" /\ t.pc = "update" /\ CopiesIn(t, tasks) = 2

\* C32: in the step that opens the edit, admin or comment dialog, the
\* dialog's password input becomes the empty string, whatever was typed
\* into it or into another dialog before, through any opens, cancels,
\* rejected and successful submits.
C32_CredentialEmptyOnOpen ==
    [][/\ (~showEditModal /\ showEditModal') => editPassword' = ""
       /\ (~showDeleteModal /\ showDeleteModal') => adminPassword' = ""
       /\ (~showCommentDeleteModal /\ showCommentDeleteModal')
             => commentPassword' = ""]_vars

\* the comment dialog has just been opened, its input empty, after a submit
\* and after the edit dialog was cancelled with a wrong password typed in
C32_Witness ==
    /\ showCommentDeleteModal /\ commentPassword = ""
    /\ ~showEditModal /\ editPassword = "wrong"
    /\ submitted >= 1 /\ last = quiet

\* some loadRecords is awaiting one of its two selects
reloading == \E t \in BagToSet(tasks) : t.pc \in {"selRecords", "selComments"}

\* C33: a reload sets the loading flag when it starts and clears it when it
\* ends, however it ends; so the flag is false whenever no reload is in
\* flight, and, the selects of reloads being answered sooner or later, every
\* reload ends and a loading page always gives way to the application.
C33_LoadingEnds ==
    /\ [](~reloading => ~loading)
    /\ [][/\ (\E t \in BagToSet(tasks') :
                 t.pc = "selRecords" /\ invoked(t)) => loading'
          /\ (\E t \in BagToSet(tasks) :
                 t.pc \in {"selRecords", "selComments"} /\ ends(t)) => ~loading']_vars
    /\ (reloading ~> ~reloading)
    /\ (loading ~> ~loading)

\* the reload of a create has failed at its first select: nothing is in
\* flight and the page is not the loading page
C33_Witness ==
    /\ last.op = "addRecord" /\ last.at = "selRecords" /\ reloadFailed(last.alerts)
    /\ ~reloading /\ ~loading

====
